---- MODULE Spec2Model ----
(***************************************************************************)
(* Propofol infusion calculator (Paedfusor model) and Sallam bolus         *)
(* calculator.                                                             *)
(*                                                                         *)
(* Numbers are fixed point integers:                                       *)
(*   weight            kg                                                  *)
(*   bolus_dose        0.1 mg/kg                                           *)
(*   infusion rates    0.1 mg/kg/h                                         *)
(*   rate_mg_per_min   0.001 mg/min (= mcg/min)                            *)
(*   amounts A1..Ae    mcg                                                 *)
(*   volumes           mL, clearances mL/min                               *)
(*   rate constants    1/KScale per minute                                 *)
(*   concentrations    0.001 mcg/mL                                        *)
(*   times             0.1 min                                             *)
(* Sequences are 1-based: numpy index i is index i + 1 here.               *)
(***************************************************************************)
EXTENDS Integers, Sequences, FiniteSets, TLC

VARIABLES
    pc,           \* position of the request: idle, search, finish, done, shown, fault
    via,          \* who invoked the core: "ui" (the Calculate button) or "direct"
    weight,       \* argument weight of calculate_propofol_infusion_flexible
    bolus_dose,   \* argument bolus_dose
    idx,          \* position of the for loop in infusion_rates_mgkg_h
    best_rate,    \* best_rate
    best_score,   \* best_score
    sol,          \* the last array odeint returned
    mean_Ce,      \* the last mean_Ce computed
    scored_mean,  \* history: the mean_Ce that made best_rate the running best
    integrated,   \* history: how many times odeint was called for this request
    results,      \* the dictionary the core returns
    table,        \* the "Key Time Points" table of the page
    runs,         \* input of the selection fold: per candidate, what odeint gave
    curve,        \* input of the crossing computation: an effect-site curve
    patient,      \* inputs of the Sallam page
    dose_per_kg,  \* dose_per_kg of the Sallam page
    banner        \* the safety banner the Sallam page shows

vars == << pc, via, weight, bolus_dose, idx, best_rate, best_score, sol, mean_Ce,
           scored_mean, integrated, results, table, runs, curve, patient,
           dose_per_kg, banner >>

-----------------------------------------------------------------------------
(* Units and helpers *)

KScale == 10 * 1000       \* rate constants are kept in 1/10000 per minute
Milli == 10 * 100         \* 1000: mg -> mcg, L -> mL, mcg/mL -> 0.001 mcg/mL

\* Python's / on numbers of either sign (TLC's \div wants a positive divisor).
Quot(a, b) == IF b > 0 THEN a \div b ELSE (-a) \div (-b)

Abs(x) == IF x < 0 THEN -x ELSE x

\* round(x, n), half to even, of x / d expressed in the unit 1/d: the nearest
\* integer to a / d.
RoundDiv(a, d) ==
    LET q == a \div d
        r == a - q * d
    IN  IF 2 * r < d THEN q
        ELSE IF 2 * r > d THEN q + 1
        ELSE IF q % 2 = 0 THEN q ELSE q + 1

\* round(c, 2) of a concentration in 0.001 mcg/mL: to the nearest 0.01.
round2(c) == 10 * RoundDiv(c, 10)

None == 0 - 1
nan == 0 - 2147483647
inf == 2147483647

-----------------------------------------------------------------------------
(* numpy *)

\* np.linspace(start, stop, num), num >= 2
linspace(start, stop, num) ==
    [k \in 1..num |-> start + Quot((k - 1) * (stop - start), num - 1)]

\* np.arange(start, stop, step), step > 0
arange(start, stop, step) ==
    [k \in 1..((stop - start + step - 1) \div step) |-> start + (k - 1) * step]

\* a[mask]: the elements of a whose mask is true, in order
RECURSIVE MaskedRange(_, _, _, _)
MaskedRange(a, mask, lo, hi) ==
    IF lo > hi THEN << >>
    ELSE IF lo = hi THEN (IF mask[lo] THEN << a[lo] >> ELSE << >>)
    ELSE LET mid == (lo + hi) \div 2
         IN  MaskedRange(a, mask, lo, mid) \o MaskedRange(a, mask, mid + 1, hi)

Masked(a, mask) == MaskedRange(a, mask, 1, Len(a))

\* np.where(mask)[0]: the indices whose mask is true, ascending
where(mask) == Masked([k \in 1..Len(mask) |-> k], mask)

RECURSIVE SumRange(_, _, _)
SumRange(a, lo, hi) ==
    IF lo > hi THEN 0
    ELSE IF lo = hi THEN a[lo]
    ELSE LET mid == (lo + hi) \div 2
         IN  SumRange(a, lo, mid) + SumRange(a, mid + 1, hi)

\* np.mean(a); nan for an empty array
mean(a) == IF Len(a) = 0 THEN nan ELSE Quot(SumRange(a, 1, Len(a)), Len(a))

\* a.argmin(): the first index of the least element
RECURSIVE ArgminRange(_, _, _)
ArgminRange(a, lo, hi) ==
    IF lo = hi THEN lo
    ELSE LET mid == (lo + hi) \div 2
             l == ArgminRange(a, lo, mid)
             r == ArgminRange(a, mid + 1, hi)
         IN  IF a[r] < a[l] THEN r ELSE l

argmin(a) == ArgminRange(a, 1, Len(a))

-----------------------------------------------------------------------------
(* The pharmacokinetic model *)

target_ce_min == 1200
target_ce_max == 1400

V1(w) == 458 * w
V2(w) == 308 * w
V3(w) == 789 * w
CL1(w) == 119 * w
CL2(w) == 112 * w
CL3(w) == 42 * w
ke0 == 1520
k10(w) == Quot(CL1(w) * KScale, V1(w))
k12(w) == Quot(CL2(w) * KScale, V1(w))
k21(w) == Quot(CL2(w) * KScale, V2(w))
k13(w) == Quot(CL3(w) * KScale, V1(w))
k31(w) == Quot(CL3(w) * KScale, V3(w))

\* pk_model with a sign slip in the peripheral compartment
pk_model_signslip(y, t, infusion_rate, w) ==
    LET A1 == y[1]  A2 == y[2]  A3 == y[3]  Ae == y[4]
        infusion_mcg_per_min == Quot(infusion_rate * Milli, Milli)
    IN  << Quot(-(k10(w) + k12(w) + k13(w)) * A1 + k21(w) * A2 + k31(w) * A3, KScale)
             + infusion_mcg_per_min,
           Quot(-k12(w) * A1 - k21(w) * A2, KScale),
           Quot(k13(w) * A1 - k31(w) * A3, KScale),
           Quot(ke0 * A1 - ke0 * Ae, KScale) >>

\* pk_model(y, t, infusion_rate), with the weight its closure captured
pk_model(y, t, infusion_rate, w) ==
    LET A1 == y[1]  A2 == y[2]  A3 == y[3]  Ae == y[4]
        infusion_mcg_per_min == Quot(infusion_rate * Milli, Milli)
    IN  << Quot(-(k10(w) + k12(w) + k13(w)) * A1 + k21(w) * A2 + k31(w) * A3, KScale)
             + infusion_mcg_per_min,
           Quot(k12(w) * A1 - k21(w) * A2, KScale),
           Quot(k13(w) * A1 - k31(w) * A3, KScale),
           Quot(ke0 * A1 - ke0 * Ae, KScale) >>

bolus_mcg(b, w) == b * w * (Milli \div 10)
initial_conditions(b, w) == << bolus_mcg(b, w), 0, 0, 0 >>
time_points == linspace(0, 1200, 1201)
infusion_rates_mgkg_h == arange(30, 150, 1)

\* scipy's odeint (LSODA, adaptive) is represented by a fixed-step scheme: one
\* explicit step of pk_model per sample interval, in fixed point.  It is a
\* deterministic function of its arguments and always converges; what the code
\* does with an integration that did not converge is the subject of SpecSelect.
\* One step of the integrator from sample k to sample k + 1 of the grid t.
OdeStep(y, t, k, infusion_rate, w) ==
    LET d == pk_model(y, t[k], infusion_rate, w)
        h == t[k + 1] - t[k]
    IN  << y[1] + Quot(d[1] * h, 10), y[2] + Quot(d[2] * h, 10),
           y[3] + Quot(d[3] * h, 10), y[4] + Quot(d[4] * h, 10) >>

\* The rows of samples lo + 1 .. hi, given row y of sample lo.
RECURSIVE OdeRows(_, _, _, _, _, _)
OdeRows(y, t, lo, hi, infusion_rate, w) ==
    IF lo >= hi THEN << >>
    ELSE IF lo + 1 = hi THEN << OdeStep(y, t, lo, infusion_rate, w) >>
    ELSE LET mid == (lo + hi) \div 2
             left == OdeRows(y, t, lo, mid, infusion_rate, w)
         IN  left \o OdeRows(left[Len(left)], t, mid, hi, infusion_rate, w)

\* odeint(pk_model, y0, t, args=(infusion_rate,)): one row per sample time.
odeint(y0, t, infusion_rate, w) ==
    << y0 >> \o OdeRows(y0, t, 1, Len(t), infusion_rate, w)

\* sol[:, c] / (V1 * 1000)
Concentration(s, c, w) == [k \in 1..Len(s) |-> Quot(s[k][c] * Milli, V1(w))]


-----------------------------------------------------------------------------
(* calculate_propofol_infusion_flexible: the search for the rate *)

\* rate_mgkg_h * weight / 60 of the search loop, in 0.001 mg/min
rate_mg_per_min(rate_mgkg_h, w) == Quot(rate_mgkg_h * w * (Milli \div 10), 60)

\* Ce[time_points > 10]
Ce_steady(Ce, t) == Masked(Ce, [k \in 1..Len(t) |-> t[k] > 100])

\* target_ce_min <= mean_Ce <= target_ce_max
InBand(m) == target_ce_min <= m /\ m <= target_ce_max

\* abs(mean_Ce - (target_ce_min + target_ce_max) / 2)
score(m) == Abs(m - Quot(target_ce_min + target_ce_max, 2))

\* The loop body's update that replaces the running best on any score not worse.
TrackLast(best, rate_mgkg_h, m) ==
    IF InBand(m) /\ score(m) <= best.score
    THEN [rate |-> rate_mgkg_h, score |-> score(m)]
    ELSE best

\* The loop body's update that scores a candidate without the band test.
TrackAny(best, rate_mgkg_h, m) ==
    IF score(m) < best.score
    THEN [rate |-> rate_mgkg_h, score |-> score(m)]
    ELSE best

\* The loop body's update of (best_rate, best_score) for one candidate's mean_Ce.
Track(best, rate_mgkg_h, m) ==
    IF InBand(m) /\ score(m) < best.score
    THEN [rate |-> rate_mgkg_h, score |-> score(m)]
    ELSE best

-----------------------------------------------------------------------------
(* calculate_propofol_infusion_flexible: the report of the winning rate *)

\* The final rate with the weight left out.
best_rate_mg_per_min_noweight(rate_mgkg_h, w) == Quot(rate_mgkg_h * (Milli \div 10), 60)

\* best_rate * weight / 60 of the final simulation, in 0.001 mg/min
best_rate_mg_per_min(rate_mgkg_h, w) == Quot(rate_mgkg_h * w * (Milli \div 10), 60)

\* np.where(Ce >= target_ce_max)[0]: the breach test made non-strict
exceed_indices_nonstrict(Ce) == where([k \in 1..Len(Ce) |-> Ce[k] >= target_ce_max])

\* np.where(Ce > target_ce_max)[0]
exceed_indices(Ce) == where([k \in 1..Len(Ce) |-> Ce[k] > target_ce_max])

\* np.where(Ce >= target_ce_max)[0]: the lower target taken for the upper one
reach_indices_upper(Ce) == where([k \in 1..Len(Ce) |-> Ce[k] >= target_ce_max])

\* np.where(Ce >= target_ce_min)[0]
reach_indices(Ce) == where([k \in 1..Len(Ce) |-> Ce[k] >= target_ce_min])

exceed_time(Ce, t) ==
    IF Len(exceed_indices(Ce)) > 0 THEN t[exceed_indices(Ce)[1]] ELSE None

reach_time(Ce, t) ==
    IF Len(reach_indices(Ce)) > 0 THEN t[reach_indices(Ce)[1]] ELSE None

warning(et) ==
    IF et # None
    THEN << "Ce will exceed", target_ce_max, "mcg/mL at approximately",
            RoundDiv(et, 1), "minutes." >>
    ELSE << "Ce does not exceed the upper target", target_ce_max,
            "mcg/mL in the first 2 hours." >>

reduction_warning(et) ==
    IF et # None
    THEN << "Consider reducing the infusion rate at", RoundDiv(et, 1),
            "minutes to prevent overshooting the target." >>
    ELSE << "No infusion rate reduction needed in the first 2 hours." >>

reach_info(rt) ==
    IF rt # None
    THEN << "Ce reaches the lower target", target_ce_min, "mcg/mL at",
            RoundDiv(rt, 1), "minutes." >>
    ELSE << "Ce does not reach the lower target in the first 2 hours." >>

\* The results dictionary of the success branch, from the final odeint array s
\* over the grid t.
Success(w, b, rate_mgkg_h, s, t) ==
    LET C1 == Concentration(s, 1, w)
        Ce == Concentration(s, 4, w)
        et == exceed_time(Ce, t)
        rt == reach_time(Ce, t)
    IN  [ weight |-> w,
          bolus_dose_mgkg |-> b,
          bolus_dose_mg |-> b * w,
          infusion_rate_mgkg_h |-> RoundDiv(rate_mgkg_h, 1),
          total_infusion_rate_mg_h |-> RoundDiv(rate_mgkg_h * w, 1),
          infusion_rate_mg_min |-> RoundDiv(rate_mgkg_h * w * 10, 60),
          expected_ce |-> round2(mean(Ce_steady(Ce, t))),
          target_range |-> << target_ce_min, "-", target_ce_max >>,
          exceed_time |-> et,
          reach_time |-> rt,
          warning |-> warning(et),
          reduction_warning |-> reduction_warning(et),
          reach_info |-> reach_info(rt),
          C1_curve |-> C1,
          Ce_curve |-> Ce,
          time_points |-> t,
          success |-> TRUE ]

\* The results dictionary of the else branch.
Failure(w, b) ==
    [ weight |-> w,
      bolus_dose_mgkg |-> b,
      success |-> FALSE,
      error |-> "No suitable infusion rate found" ]

-----------------------------------------------------------------------------
(* The page: inputs, the Calculate button, the table *)

\* st.number_input(min_value, max_value): the values the widget can hold
number_input(min_value, max_value, offered) ==
    { v \in offered : min_value <= v /\ v <= max_value }

key_times == << 5, 10, 20, 30, 50, 100, 150, 200, 300, 450, 600, 900, 1200 >>

\* The first index at or after t, as a sorted search would give.
key_index_after(t, kt) ==
    LET later == where([k \in 1..Len(t) |-> t[k] > kt])
    IN  IF Len(later) > 0 THEN later[1] ELSE Len(t)

\* np.abs(result['time_points'] - t).argmin()
key_index(t, kt) == argmin([k \in 1..Len(t) |-> Abs(t[k] - kt)])

key_indices(t) == [r \in 1..Len(key_times) |-> key_index(t, key_times[r])]

concentration_table(res) ==
    LET ki == key_indices(res.time_points)
    IN  [r \in 1..Len(key_times) |->
            [ time |-> key_times[r],
              C1 |-> round2(res.C1_curve[ki[r]]),
              Ce |-> round2(res.Ce_curve[ki[r]]) ]]


-----------------------------------------------------------------------------
(* Bounds and input sets *)

\* << weight (kg), bolus dose (0.1 mg/kg) >> pairs typed into the page, and
\* pairs passed by a caller of the function other than the page.
PageRequests == { << 20, 20 >>, << 5, 5 >>, << 100, 30 >> }
CallerRequests == { << 0, 20 >>, << -5, 20 >> }

NCand == 3        \* candidates of the selection fold
MaxSamples == 3   \* samples of a free effect-site curve

\* mean_Ce values a candidate may have (0.001 mcg/mL)
MeanLevels == { 1199, 1200, 1250, 1350, 1400, 1401 }

\* Ce values a sample may have (0.001 mcg/mL)
CeLevels == { 1199, 1200, 1300, 1400, 1401 }

-----------------------------------------------------------------------------
(* The request *)

Idle ==
    /\ pc = "idle" /\ via = "none" /\ weight = 0 /\ bolus_dose = 0 /\ idx = 0
    /\ best_rate = None /\ best_score = inf /\ sol = << >> /\ mean_Ce = nan
    /\ scored_mean = nan /\ integrated = 0 /\ results = [success |-> FALSE]
    /\ table = << >>

NoFold == runs = << >> /\ curve = << >>
NoSallam == patient = [age_months |-> 0, weight_kg |-> 0, height_cm |-> 0]
            /\ dose_per_kg = 0 /\ banner = "none"

Init == Idle /\ NoFold /\ NoSallam

\* Lines 18-46: the parameters and the empty running best. V1 = 0 makes
\* k10 = CL1 / V1 raise ZeroDivisionError.
Enter(w, b, who) ==
    /\ pc = "idle"
    /\ via' = who /\ weight' = w /\ bolus_dose' = b
    /\ pc' = IF V1(w) = 0 THEN "fault" ELSE "search"
    /\ idx' = 1 /\ best_rate' = None /\ best_score' = inf
    /\ UNCHANGED << sol, mean_Ce, scored_mean, integrated, results, table >>

\* The Calculate button: the arguments are the two widgets' values.
Calculate ==
    \E q \in PageRequests :
        /\ q[1] \in number_input(5, 100, { q[1] })
        /\ q[2] \in number_input(5, 30, { q[2] })
        /\ Enter(q[1], q[2], "ui")

\* A caller of the function other than the page.
CallCore == \E q \in CallerRequests : Enter(q[1], q[2], "direct")

\* Lines 48-52: the simulation of one candidate and its steady-state mean.
Simulate(b, w, rate_mgkg_h) ==
    LET s == odeint(initial_conditions(b, w), time_points,
                    rate_mg_per_min(rate_mgkg_h, w), w)
        Ce == Concentration(s, 4, w)
    IN  [sol |-> s, mean_Ce |-> mean(Ce_steady(Ce, time_points))]

\* Lines 47-57: one candidate of the grid.
SearchStep ==
    /\ pc = "search" /\ idx <= Len(infusion_rates_mgkg_h)
    /\ \E c \in { Simulate(bolus_dose, weight, infusion_rates_mgkg_h[idx]) } :
         \E best \in { Track([rate |-> best_rate, score |-> best_score],
                             infusion_rates_mgkg_h[idx], c.mean_Ce) } :
            /\ sol' = c.sol
            /\ mean_Ce' = c.mean_Ce
            /\ best_rate' = best.rate
            /\ best_score' = best.score
            /\ scored_mean' = IF best.rate # best_rate THEN c.mean_Ce ELSE scored_mean
    /\ idx' = idx + 1
    /\ integrated' = integrated + 1
    /\ UNCHANGED << pc, via, weight, bolus_dose, results, table >>

\* Lines 58-107: the final simulation and the dictionary returned.
Finish ==
    /\ pc = "search" /\ idx > Len(infusion_rates_mgkg_h)
    /\ IF best_rate # None
       THEN \E s \in { odeint(initial_conditions(bolus_dose, weight), time_points,
                              best_rate_mg_per_min(best_rate, weight), weight) } :
               /\ sol' = s
               /\ results' = Success(weight, bolus_dose, best_rate, s, time_points)
               /\ integrated' = integrated + 1
       ELSE /\ results' = Failure(weight, bolus_dose)
            /\ UNCHANGED << sol, integrated >>
    /\ pc' = "done"
    /\ UNCHANGED << via, weight, bolus_dose, idx, best_rate, best_score, mean_Ce,
                    scored_mean, table >>

\* Lines 111-166: the page shows the summary and the table, or the error.
Render ==
    /\ pc = "done" /\ via = "ui"
    /\ table' = IF results.success THEN concentration_table(results) ELSE << >>
    /\ pc' = "shown"
    /\ UNCHANGED << via, weight, bolus_dose, idx, best_rate, best_score, sol, mean_Ce,
                    scored_mean, integrated, results >>

Next ==
    \/ (Calculate /\ UNCHANGED << runs, curve, patient, dose_per_kg, banner >>)
    \/ (CallCore /\ UNCHANGED << runs, curve, patient, dose_per_kg, banner >>)
    \/ (SearchStep /\ UNCHANGED << runs, curve, patient, dose_per_kg, banner >>)
    \/ (Finish /\ UNCHANGED << runs, curve, patient, dose_per_kg, banner >>)
    \/ (Render /\ UNCHANGED << runs, curve, patient, dose_per_kg, banner >>)

Spec == Init /\ [][Next]_vars


-----------------------------------------------------------------------------
(* The selection of the rate, for any means the candidates may have.       *)
(* runs[i] is what the i-th simulation of the search gave: its mean_Ce and *)
(* whether the integrator reported success (odeint returns its array       *)
(* either way, and the code does not ask for its status).                  *)

\* Ae (mcg) of a sample whose Ce is c, for weight w
AeOf(c, w) == -Quot(-c * V1(w), Milli)

\* An odeint array whose effect-site column gives the curve c
SolOf(c, w) == [k \in 1..Len(c) |-> << AeOf(c[k], w), 0, 0, AeOf(c[k], w) >>]

FreeCurves(n) == [1..n -> CeLevels]

\* Arrays the final simulation of the selection fold may give
FinalCurves == [1..2 -> { 1199, 1401 }]

InitSelect ==
    /\ pc = "search" /\ via = "direct" /\ weight = 20 /\ bolus_dose = 20 /\ idx = 1
    /\ best_rate = None /\ best_score = inf /\ sol = << >> /\ mean_Ce = nan
    /\ scored_mean = nan /\ integrated = 0 /\ results = [success |-> FALSE]
    /\ table = << >>
    /\ runs \in [1..NCand -> [mean_Ce : MeanLevels, converged : BOOLEAN]]
    /\ curve = << >>
    /\ NoSallam

\* Lines 53-57 on the mean of candidate idx.
SelectStep ==
    /\ pc = "search" /\ idx <= Len(runs)
    /\ \E best \in { Track([rate |-> best_rate, score |-> best_score],
                           infusion_rates_mgkg_h[idx], runs[idx].mean_Ce) } :
         /\ best_rate' = best.rate
         /\ best_score' = best.score
         /\ scored_mean' = IF best.rate # best_rate THEN runs[idx].mean_Ce
                           ELSE scored_mean
    /\ mean_Ce' = runs[idx].mean_Ce
    /\ idx' = idx + 1
    /\ integrated' = integrated + 1
    /\ UNCHANGED << pc, via, weight, bolus_dose, sol, results, table, runs, curve,
                    patient, dose_per_kg, banner >>

\* Lines 58-107, the final odeint array being any array.
SelectFinish ==
    /\ pc = "search" /\ idx > Len(runs)
    /\ IF best_rate # None
       THEN \E c \in FinalCurves :
               /\ curve' = c
               /\ sol' = SolOf(c, weight)
               /\ results' = Success(weight, bolus_dose, best_rate, SolOf(c, weight),
                                     linspace(0, 1200, Len(c)))
               /\ integrated' = integrated + 1
       ELSE /\ results' = Failure(weight, bolus_dose)
            /\ UNCHANGED << sol, integrated, curve >>
    /\ pc' = "done"
    /\ UNCHANGED << via, weight, bolus_dose, idx, best_rate, best_score, mean_Ce,
                    scored_mean, table, runs, patient, dose_per_kg, banner >>

NextSelect == SelectStep \/ SelectFinish

SpecSelect == InitSelect /\ [][NextSelect]_vars

-----------------------------------------------------------------------------
(* The crossing times, for any effect-site curve. *)

InitCross ==
    /\ pc = "report" /\ via = "direct" /\ weight = 20 /\ bolus_dose = 20
    /\ idx = Len(infusion_rates_mgkg_h) + 1
    /\ best_rate \in { infusion_rates_mgkg_h[1] } /\ best_score = 0
    /\ sol = << >> /\ mean_Ce = nan /\ scored_mean = nan /\ integrated = 0
    /\ results = [success |-> FALSE] /\ table = << >>
    /\ runs = << >>
    /\ curve \in UNION { FreeCurves(n) : n \in 2..MaxSamples }
    /\ NoSallam

\* Lines 61-99 on the array of the curve.
Report ==
    /\ pc = "report"
    /\ sol' = SolOf(curve, weight)
    /\ results' = Success(weight, bolus_dose, best_rate, SolOf(curve, weight),
                          linspace(0, 1200, Len(curve)))
    /\ pc' = "done"
    /\ UNCHANGED << via, weight, bolus_dose, idx, best_rate, best_score, mean_Ce,
                    scored_mean, integrated, table, runs, curve, patient,
                    dose_per_kg, banner >>

NextCross == Report

SpecCross == InitCross /\ [][NextCross]_vars

-----------------------------------------------------------------------------
(* The Sallam bolus page.  age in 0.1 months, weight in 0.1 kg, height in   *)
(* 0.1 cm, BSA in 0.001 m2, doses in 0.001 mg and 0.001 mg/kg.              *)

\* np.sqrt, rounded down
RECURSIVE SqrtRange(_, _, _)
SqrtRange(x, lo, hi) ==
    IF lo >= hi THEN lo
    ELSE LET mid == (lo + hi + 1) \div 2
         IN  IF mid * mid <= x THEN SqrtRange(x, mid, hi) ELSE SqrtRange(x, lo, mid - 1)

sqrt(x) == SqrtRange(x, 0, 40000)

calculate_bsa(weight_kg, height_cm) == sqrt(Quot(height_cm * weight_kg * 100, 36))

calculate_bolus_dose(age_months, bsa_m2) ==
    750 + 14 * age_months + Quot(4582 * bsa_m2, 100)

\* The banner with the high test made non-strict.
safety_band_nonstrict(dpk) ==
    IF dpk >= 3000 THEN "high" ELSE IF dpk < 1000 THEN "low" ELSE "normal"

\* Lines 126-131: st.error, st.warning or st.success
safety_band(dpk) ==
    IF dpk > 3000 THEN "high" ELSE IF dpk < 1000 THEN "low" ELSE "normal"

Ages == { 0, 10, 60, 2400 }
WeightsKg == { 40, 50, 160, 2000 }
HeightsCm == { 250, 520, 700, 2310 }

InitSallam ==
    /\ pc = "inputs"
    /\ patient \in [ age_months : number_input(0, 2400, Ages),
                     weight_kg : number_input(1, 2000, WeightsKg),
                     height_cm : number_input(100, 2500, HeightsCm) ]
    /\ dose_per_kg = 0 /\ banner = "none"
    /\ via = "none" /\ weight = 0 /\ bolus_dose = 0 /\ idx = 0
    /\ best_rate = None /\ best_score = inf /\ sol = << >> /\ mean_Ce = nan
    /\ scored_mean = nan /\ integrated = 0 /\ results = [success |-> FALSE]
    /\ table = << >>
    /\ NoFold

\* Lines 58-60
ComputeDose ==
    /\ pc = "inputs"
    /\ bolus_dose' = calculate_bolus_dose(patient.age_months,
                        calculate_bsa(patient.weight_kg, patient.height_cm))
    /\ dose_per_kg' = Quot(bolus_dose' * 10, patient.weight_kg)
    /\ pc' = "dosed"
    /\ UNCHANGED << via, weight, idx, best_rate, best_score, sol, mean_Ce,
                    scored_mean, integrated, results, table, runs, curve, patient,
                    banner >>

\* Lines 126-131
SafetyAssessment ==
    /\ pc = "dosed"
    /\ banner' = safety_band(dose_per_kg)
    /\ pc' = "assessed"
    /\ UNCHANGED << via, weight, bolus_dose, idx, best_rate, best_score, sol, mean_Ce,
                    scored_mean, integrated, results, table, runs, curve, patient,
                    dose_per_kg >>

NextSallam == ComputeDose \/ SafetyAssessment

SpecSallam == InitSallam /\ [][NextSallam]_vars


-----------------------------------------------------------------------------
(* Properties *)

Returned == pc \in { "done", "shown" }

\* The candidates of the selection fold whose mean lies in [1.2, 1.4]
Qualifying == { i \in 1..Len(runs) : 1200 <= runs[i].mean_Ce /\ runs[i].mean_Ce <= 1400 }

Distance(i) == Abs(runs[i].mean_Ce - 1300)

\* C1: the rate selected is a candidate whose mean lies in [1.2, 1.4], whose
\* distance to 1.3 is least among the qualifying candidates, and the first of
\* those at that distance in ascending grid order.
C1_SelectsNearestFirst ==
    (Returned /\ results.success) =>
        \E i \in Qualifying :
            /\ best_rate = infusion_rates_mgkg_h[i]
            /\ results.infusion_rate_mgkg_h = infusion_rates_mgkg_h[i]
            /\ \A j \in Qualifying :
                  /\ Distance(j) >= Distance(i)
                  /\ Distance(j) = Distance(i) => j >= i

C1_Witness ==
    /\ Returned /\ results.success
    /\ \E i, j \in Qualifying :
          /\ i < j /\ Distance(i) = Distance(j)
          /\ runs[i].mean_Ce # runs[j].mean_Ce
          /\ \A k \in Qualifying : Distance(k) >= Distance(i)
          /\ best_rate = infusion_rates_mgkg_h[i]

\* C2: with no candidate's mean in [1.2, 1.4] the outcome is the failure
\* (success False, 'No suitable infusion rate found', no rate, no crossing
\* times, no curves), and a success is returned only if a candidate qualified.
C2_NoQualifierIsFailure ==
    Returned =>
        /\ Qualifying = {} =>
              /\ results.success = FALSE
              /\ DOMAIN results = { "weight", "bolus_dose_mgkg", "success", "error" }
              /\ results.error = "No suitable infusion rate found"
        /\ results.success => Qualifying # {}

C2_Witness ==
    /\ Returned /\ Qualifying = {} /\ Len(runs) > 0
    /\ results.success = FALSE
    /\ \E i, j \in 1..Len(runs) : runs[i].mean_Ce < 1200 /\ runs[j].mean_Ce > 1400

\* C4: a candidate whose integration did not converge never becomes the best
\* rate, and when the integration fails for every candidate the outcome is
\* the failure.
C4_FailedCandidateDisqualified ==
    Returned =>
        /\ results.success =>
              \E i \in 1..Len(runs) :
                  best_rate = infusion_rates_mgkg_h[i] /\ runs[i].converged
        /\ (\A i \in 1..Len(runs) : ~runs[i].converged) => results.success = FALSE

\* C6: exceed_time is the time of the first sample with Ce > 1.4 and None
\* exactly when there is none; reach_time is the time of the first sample with
\* Ce >= 1.2 and None exactly when there is none.
C6_CrossingTimes ==
    (Returned /\ results.success) =>
        LET Ce == results.Ce_curve
            t == results.time_points
            N == 1..Len(Ce)
        IN  /\ Len(t) = Len(Ce)
            /\ (results.exceed_time = None) <=> (\A k \in N : Ce[k] <= 1400)
            /\ results.exceed_time # None =>
                  \E k \in N : /\ Ce[k] > 1400
                               /\ \A j \in 1..(k - 1) : Ce[j] <= 1400
                               /\ results.exceed_time = t[k]
            /\ (results.reach_time = None) <=> (\A k \in N : Ce[k] < 1200)
            /\ results.reach_time # None =>
                  \E k \in N : /\ Ce[k] >= 1200
                               /\ \A j \in 1..(k - 1) : Ce[j] < 1200
                               /\ results.reach_time = t[k]

C6_Witness ==
    /\ Returned /\ results.success
    /\ results.Ce_curve = curve
    /\ Len(curve) = 3
    /\ curve[1] = 1199 /\ curve[2] = 1200 /\ curve[3] = 1400
    /\ results.exceed_time = None
    /\ results.reach_time = results.time_points[2]

\* C3: invoked with weight <= 0 the core rejects the input: it raises no
\* numerical fault and integrates no candidate.
C3_NonPositiveWeightRejected ==
    (pc # "idle" /\ weight <= 0) =>
        /\ pc # "fault"
        /\ integrated = 0
        /\ Returned => results.success = FALSE

\* C5: the curve reported is the curve scored: the final array is the array
\* the search computed for the winning rate, the mean of the reported Ce over
\* t > 10 min is the mean that qualified, and it lies in [1.2, 1.4].
C5_ReportedCurveIsScoredCurve ==
    (Returned /\ results.success) =>
        LET m == mean(Ce_steady(results.Ce_curve, results.time_points))
        IN  /\ results.time_points = time_points
            /\ sol = Simulate(bolus_dose, weight, best_rate).sol
            /\ m = scored_mean
            /\ 1200 <= m /\ m <= 1400
            /\ Abs(results.expected_ce - m) <= 5

C5_Witness ==
    /\ pc = "done" /\ results.success /\ weight = 20
    /\ scored_mean = mean(Ce_steady(results.Ce_curve, results.time_points))
    /\ integrated = Len(infusion_rates_mgkg_h) + 1

\* C7: from the bolus-loaded state, with a rate of the grid and weight > 0,
\* A1, A2, A3 and Ae are non-negative at every sample time.
C7_AmountsNonNegative ==
    (weight > 0 /\ integrated > 0) =>
        /\ Len(sol) = Len(time_points)
        /\ sol[1] = << bolus_dose * weight * 100, 0, 0, 0 >>
        /\ \A k \in 1..Len(sol) : \A c \in 1..4 : sol[k][c] >= 0

C7_Witness ==
    /\ weight = 5 /\ integrated = Len(infusion_rates_mgkg_h)
    /\ \A c \in 1..4 : sol[Len(sol)][c] > 0

\* C8: each row of the table holds C1 and Ce of the one sample whose time is
\* nearest to the checkpoint (the sample at the checkpoint), rounded to 2
\* decimals.
C8_TableIsNearestSample ==
    (pc = "shown" /\ results.success) =>
        LET t == results.time_points
            checkpoints == << 5, 10, 20, 30, 50, 100, 150, 200, 300, 450, 600, 900, 1200 >>
        IN  /\ Len(table) = Len(checkpoints)
            /\ \A r \in 1..Len(checkpoints) :
                  /\ table[r].time = checkpoints[r]
                  /\ \E k \in 1..Len(t) :
                        /\ t[k] = checkpoints[r]
                        /\ \A j \in 1..Len(t) :
                              Abs(t[j] - checkpoints[r]) >= Abs(t[k] - checkpoints[r])
                        /\ table[r].C1 % 10 = 0
                        /\ table[r].Ce % 10 = 0
                        /\ Abs(table[r].C1 - results.C1_curve[k]) <= 5
                        /\ Abs(table[r].Ce - results.Ce_curve[k]) <= 5

C8_Witness ==
    /\ pc = "shown" /\ results.success /\ Len(table) = 13
    /\ table[1].time = 5 /\ table[1].C1 > table[1].Ce
    /\ table[13].time = 1200

\* C10: a success always carries a reach_time, never the message that the
\* lower target is not reached, and reach_time <= exceed_time when both exist.
C10_SuccessHasReachTime ==
    (Returned /\ results.success) =>
        /\ results.reach_time # None
        /\ results.reach_info # << "Ce does not reach the lower target in the first 2 hours." >>
        /\ results.exceed_time # None => results.reach_time <= results.exceed_time

C10_Witness ==
    /\ Returned /\ results.success
    /\ results.exceed_time # None
    /\ results.reach_time # None
    /\ results.reach_time < results.exceed_time

\* C9: the banner is high exactly when dose-per-kg > 3.0, low exactly when
\* dose-per-kg < 1.0, and normal otherwise, 1.0 and 3.0 included.
C9_SafetyBanding ==
    pc = "assessed" =>
        /\ banner \in { "high", "low", "normal" }
        /\ (banner = "high") <=> (dose_per_kg > 3000)
        /\ (banner = "low") <=> (dose_per_kg < 1000)
        /\ (banner = "normal") <=> (1000 <= dose_per_kg /\ dose_per_kg <= 3000)

C9_Witness ==
    pc = "assessed" /\ dose_per_kg = 3000 /\ banner = "normal"

=============================================================================
